---- MODULE Spec2Model ----
(***************************************************************************)
(* The two on-chain programs of the repository as one state machine:       *)
(*   - counter_program (rust_prog_struc/counter_program/src/lib.rs): the   *)
(*     dispatcher, InitializeCounter and IncrementCounter over a ledger of *)
(*     accounts;                                                           *)
(*   - byte-calculator (byte-calculator/src/lib.rs): the stateless         *)
(*     three-byte arithmetic evaluator.                                    *)
(* A step is one call of a program's entrypoint by the ledger environment. *)
(*                                                                         *)
(* TLC's integers are 32 bits wide, so a 64-bit machine integer is a tuple *)
(* of four 16-bit limbs, least significant first; the byte buffers of the  *)
(* ledger and of the instruction payloads are sequences of 0..255.         *)
(***************************************************************************)
EXTENDS Integers, Sequences, FiniteSets, TLC

VARIABLES
    ledger,   \* address -> [lamports, owner, data]: the accounts' persistent state
    pre,      \* the ledger as it was when the last call started
    last,     \* the last call: its program, inputs and outcome
    ncalls,   \* calls made so far
    tally     \* address -> the value it was initialized with and the number of
              \* Increment calls that succeeded on it since

vars == <<ledger, pre, last, ncalls, tally>>

\* How many entrypoint calls a behaviour makes.
MaxCalls == 3

-----------------------------------------------------------------------------
(* 64-bit machine integers: four 16-bit limbs, least significant first.    *)

LimbBase == 256 * 256

U64_MAX == <<LimbBase - 1, LimbBase - 1, LimbBase - 1, LimbBase - 1>>

\* The u64 of a small natural number (below 2^16).
U64Of(n) == <<n, 0, 0, 0>>

None == <<>>
Some(x) == <<x>>

\* Mutant of to_le_bytes: the bytes in big-endian order.
to_be_bytes(x) ==
    <<x[4] \div 256, x[4] % 256, x[3] \div 256, x[3] % 256,
      x[2] \div 256, x[2] % 256, x[1] \div 256, x[1] % 256>>

\* u64::to_le_bytes, which borsh's BorshSerialize for u64 writes.
to_le_bytes(x) ==
    <<x[1] % 256, x[1] \div 256, x[2] % 256, x[2] \div 256,
      x[3] % 256, x[3] \div 256, x[4] % 256, x[4] \div 256>>

\* u64::from_le_bytes, which borsh's BorshDeserialize for u64 reads.
from_le_bytes(b) ==
    <<b[1] + 256 * b[2], b[3] + 256 * b[4], b[5] + 256 * b[6], b[7] + 256 * b[8]>>

\* Mutant of checked_add: the limbs are added without carrying into the next.
checked_add_no_carry(x, y) ==
    IF x[4] + y[4] >= LimbBase
    THEN None
    ELSE Some(<<(x[1] + y[1]) % LimbBase, (x[2] + y[2]) % LimbBase,
               (x[3] + y[3]) % LimbBase, x[4] + y[4]>>)

\* Mutant of checked_add: u64::wrapping_add, which never fails.
wrapping_add(x, y) ==
    LET s1 == x[1] + y[1]
        s2 == x[2] + y[2] + (s1 \div LimbBase)
        s3 == x[3] + y[3] + (s2 \div LimbBase)
        s4 == x[4] + y[4] + (s3 \div LimbBase)
    IN  Some(<<s1 % LimbBase, s2 % LimbBase, s3 % LimbBase, s4 % LimbBase>>)

\* u64::checked_add: None when the sum does not fit in 64 bits.
checked_add(x, y) ==
    LET s1 == x[1] + y[1]
        s2 == x[2] + y[2] + (s1 \div LimbBase)
        s3 == x[3] + y[3] + (s2 \div LimbBase)
        s4 == x[4] + y[4] + (s3 \div LimbBase)
    IN  IF s4 \div LimbBase > 0
        THEN None
        ELSE Some(<<s1 % LimbBase, s2 % LimbBase, s3 % LimbBase, s4 % LimbBase>>)

-----------------------------------------------------------------------------
(* borsh                                                                   *)

\* <u64 as BorshDeserialize>::deserialize: reads 8 bytes off the front of the
\* buffer, or fails when fewer are left.
deserialize_u64(buf) ==
    IF Len(buf) < 8
    THEN [ok |-> FALSE, value |-> None, rest |-> buf]
    ELSE [ok |-> TRUE, value |-> Some(from_le_bytes(SubSeq(buf, 1, 8))),
          rest |-> SubSeq(buf, 9, Len(buf))]

\* Mutant of CounterAccount_try_from_slice: BorshDeserialize::deserialize,
\* which leaves the bytes after the count unread.
CounterAccount_deserialize(buf) ==
    LET d == deserialize_u64(buf)
    IN  IF d.ok THEN d.value ELSE None

\* CounterAccount::try_from_slice: the count, or None when the buffer is not
\* exactly the 8 bytes of one (try_from_slice rejects unread trailing bytes).
CounterAccount_try_from_slice(buf) ==
    LET d == deserialize_u64(buf)
    IN  IF d.ok /\ d.rest = <<>> THEN d.value ELSE None

\* Mutant of CounterInstruction_try_from_slice: BorshDeserialize::deserialize,
\* which leaves the bytes after the variant's fields unread.
CounterInstruction_deserialize(buf) ==
    IF Len(buf) < 1
    THEN None
    ELSE IF buf[1] = 0
    THEN LET d == deserialize_u64(SubSeq(buf, 2, Len(buf)))
         IN  IF d.ok
             THEN Some([variant |-> "InitializeCounter", initial_value |-> d.value[1]])
             ELSE None
    ELSE IF buf[1] = 1
    THEN Some([variant |-> "IncrementCounter", initial_value |-> U64Of(0)])
    ELSE None

\* CounterInstruction::try_from_slice: a one-byte variant index, the variant's
\* fields, and nothing after them.
CounterInstruction_try_from_slice(buf) ==
    IF Len(buf) < 1
    THEN None
    ELSE LET tag == buf[1]
             body == SubSeq(buf, 2, Len(buf))
         IN  IF tag = 0
             THEN LET d == deserialize_u64(body)
                  IN  IF d.ok /\ d.rest = <<>>
                      THEN Some([variant |-> "InitializeCounter",
                                 initial_value |-> d.value[1]])
                      ELSE None
             ELSE IF tag = 1
             THEN IF body = <<>>
                  THEN Some([variant |-> "IncrementCounter",
                             initial_value |-> U64Of(0)])
                  ELSE None
             ELSE None

\* Mutant of CounterAccount_serialize: the writer wants room for more than
\* the 8 bytes of the count.
CounterAccount_serialize_needs_room(count, buf) ==
    LET bytes == to_le_bytes(count)
    IN  IF Len(buf) > 8
        THEN [ok |-> TRUE, buf |-> bytes \o SubSeq(buf, 9, Len(buf))]
        ELSE [ok |-> FALSE, buf |-> SubSeq(bytes, 1, Len(buf))]

\* CounterAccount::serialize into `&mut [u8]`: write_all copies as many of the
\* 8 bytes as the buffer holds and fails when it holds fewer than 8.
CounterAccount_serialize(count, buf) ==
    LET bytes == to_le_bytes(count)
    IN  IF Len(buf) >= 8
        THEN [ok |-> TRUE, buf |-> bytes \o SubSeq(buf, 9, Len(buf))]
        ELSE [ok |-> FALSE, buf |-> SubSeq(bytes, 1, Len(buf))]

-----------------------------------------------------------------------------
(* The ledger                                                              *)

\* The counter program's own identity (program_id), the system program's, and
\* some other program's.
CounterProgram == "counter_program"
SystemProgram == "system_program"
OtherProgram == "other_program"

Addresses == {"counter_a", "counter_b", "payer", "poor", "foreign",
              "short", "long", SystemProgram}

\* An address no account was ever created at: no balance, no bytes, and the
\* system program as its owner.
Absent == [lamports |-> 0, owner |-> SystemProgram, data |-> <<>>]

IsPresent(acct) == acct.lamports > 0

\* Rent::minimum_balance under the ledger's default rent: 3480 lamports per
\* byte-year, two years, 128 bytes of per-account overhead.
minimum_balance(space) == (128 + space) * 3480 * 2

\* The size of a counter account, in bytes.
account_space == 8

\* The balance the test airdrops to the payer.
AirdropLamports == 1000000000

\* ProgramError values the counter program returns, under the names of the
\* error taxonomy.
InvalidInstruction == "InvalidInstructionData"
NotEnoughAccounts == "NotEnoughAccountKeys"
IncorrectOwner == "IncorrectProgramId"
MalformedState == "BorshIoError"
ArithmeticOverflow == "InvalidAccountData"

\* What the account-creation service answers when it rejects a request.
ProvisioningFailed == {"MissingAccount", "AccountAlreadyInUse", "InvalidArgument",
                       "InsufficientFunds"}

\* The system program's create_account, reached through invoke: it fails as
\* a unit, or it debits the funder, and allocates `space` zero bytes at the
\* target, funded and owned by `owner`. `infos` are the account references
\* handed to invoke; the third one must be the system program itself.
create_account(led, from, to, lamports, space, owner, infos) ==
    IF infos[3] # SystemProgram
    THEN [err |-> "MissingAccount", ledger |-> led]
    ELSE IF led[to].lamports > 0 \/ led[to].data # <<>> \/ led[to].owner # SystemProgram
    THEN [err |-> "AccountAlreadyInUse", ledger |-> led]
    ELSE IF led[from].data # <<>> \/ led[from].owner # SystemProgram
    THEN [err |-> "InvalidArgument", ledger |-> led]
    ELSE IF led[from].lamports < lamports
    THEN [err |-> "InsufficientFunds", ledger |-> led]
    ELSE [err |-> "Ok",
          ledger |-> [led EXCEPT
                        ![from].lamports = @ - lamports,
                        ![to] = [lamports |-> lamports, owner |-> owner,
                                 data |-> [i \in 1..space |-> 0]]]]

-----------------------------------------------------------------------------
(* counter_program                                                         *)

\* What a handler returns: the result, the ledger it leaves, the requests it
\* issued to the account-creation service (each with the service's answer) and
\* the log lines it wrote.
Outcome(result, led, cpi, logs) ==
    [result |-> result, ledger |-> led, cpi |-> cpi, logs |-> logs]

\* Mutant of process_initialize_counter: the funder is charged the minimum
\* balance of an account without data.
process_initialize_counter_rent_for_zero(program_id, led, accounts, initial_value) ==
    IF Len(accounts) < 3
    THEN Outcome(NotEnoughAccounts, led, <<>>, <<>>)
    ELSE LET counter_account == accounts[1]
             payer_account == accounts[2]
             required_lamports == minimum_balance(0)
             created == create_account(led, payer_account, counter_account,
                                       required_lamports, account_space, program_id,
                                       <<payer_account, counter_account, accounts[3]>>)
             request == [from |-> payer_account, to |-> counter_account,
                         lamports |-> required_lamports, space |-> account_space,
                         owner |-> program_id, answer |-> created.err]
         IN  IF created.err # "Ok"
             THEN Outcome(created.err, led, <<request>>, <<>>)
             ELSE LET written == CounterAccount_serialize(
                                     initial_value, created.ledger[counter_account].data)
                      after == [created.ledger EXCEPT ![counter_account].data = written.buf]
                  IN  IF written.ok
                      THEN Outcome("Ok", after, <<request>>,
                                   <<"Counter initialized with value: {}">>)
                      ELSE Outcome(MalformedState, after, <<request>>, <<>>)

\* Mutant of process_initialize_counter: the created account is left as the
\* service allocated it, the initial value is never written.
process_initialize_counter_no_write(program_id, led, accounts, initial_value) ==
    IF Len(accounts) < 3
    THEN Outcome(NotEnoughAccounts, led, <<>>, <<>>)
    ELSE LET created == create_account(led, accounts[2], accounts[1],
                                       minimum_balance(account_space), account_space,
                                       program_id, <<accounts[2], accounts[1], accounts[3]>>)
             request == [from |-> accounts[2], to |-> accounts[1],
                         lamports |-> minimum_balance(account_space),
                         space |-> account_space, owner |-> program_id,
                         answer |-> created.err]
         IN  IF created.err # "Ok"
             THEN Outcome(created.err, led, <<request>>, <<>>)
             ELSE Outcome("Ok", created.ledger, <<request>>,
                          <<"Counter initialized with value: {}">>)

\* Mutant of process_initialize_counter: only the target and the funder are
\* fetched, and the request is issued without a system program reference.
process_initialize_counter_two_accounts(program_id, led, accounts, initial_value) ==
    IF Len(accounts) < 2
    THEN Outcome(NotEnoughAccounts, led, <<>>, <<>>)
    ELSE LET created == create_account(led, accounts[2], accounts[1],
                                       minimum_balance(account_space), account_space,
                                       program_id, <<accounts[2], accounts[1], SystemProgram>>)
             request == [from |-> accounts[2], to |-> accounts[1],
                         lamports |-> minimum_balance(account_space),
                         space |-> account_space, owner |-> program_id,
                         answer |-> created.err]
         IN  IF created.err # "Ok"
             THEN Outcome(created.err, led, <<request>>, <<>>)
             ELSE LET written == CounterAccount_serialize(
                                     initial_value, created.ledger[accounts[1]].data)
                  IN  Outcome("Ok", [created.ledger EXCEPT ![accounts[1]].data = written.buf],
                              <<request>>, <<"Counter initialized with value: {}">>)

\* Mutant of process_initialize_counter: the result of invoke is dropped, and
\* the initial value is written whether or not the account was created.
process_initialize_counter_ignore_invoke(program_id, led, accounts, initial_value) ==
    IF Len(accounts) < 3
    THEN Outcome(NotEnoughAccounts, led, <<>>, <<>>)
    ELSE LET created == create_account(led, accounts[2], accounts[1],
                                       minimum_balance(account_space), account_space,
                                       program_id, <<accounts[2], accounts[1], accounts[3]>>)
             request == [from |-> accounts[2], to |-> accounts[1],
                         lamports |-> minimum_balance(account_space),
                         space |-> account_space, owner |-> program_id,
                         answer |-> created.err]
             written == CounterAccount_serialize(
                            initial_value, created.ledger[accounts[1]].data)
             after == [created.ledger EXCEPT ![accounts[1]].data = written.buf]
         IN  IF written.ok
             THEN Outcome("Ok", after, <<request>>, <<"Counter initialized with value: {}">>)
             ELSE Outcome(MalformedState, after, <<request>>, <<>>)

process_initialize_counter(program_id, led, accounts, initial_value) ==
    IF Len(accounts) < 3
    THEN Outcome(NotEnoughAccounts, led, <<>>, <<>>)
    ELSE LET counter_account == accounts[1]
             payer_account == accounts[2]
             required_lamports == minimum_balance(account_space)
             created == create_account(led, payer_account, counter_account,
                                       required_lamports, account_space, program_id,
                                       <<payer_account, counter_account, accounts[3]>>)
             request == [from |-> payer_account, to |-> counter_account,
                         lamports |-> required_lamports, space |-> account_space,
                         owner |-> program_id, answer |-> created.err]
         IN  IF created.err # "Ok"
             THEN Outcome(created.err, led, <<request>>, <<>>)
             ELSE LET written == CounterAccount_serialize(
                                     initial_value, created.ledger[counter_account].data)
                      after == [created.ledger EXCEPT ![counter_account].data = written.buf]
                  IN  IF written.ok
                      THEN Outcome("Ok", after, <<request>>,
                                   <<"Counter initialized with value: {}">>)
                      ELSE Outcome(MalformedState, after, <<request>>, <<>>)

\* Mutant of process_increment_counter: the ownership check is missing.
process_increment_counter_no_owner_check(program_id, led, accounts) ==
    IF Len(accounts) < 1
    THEN Outcome(NotEnoughAccounts, led, <<>>, <<>>)
    ELSE LET data == led[accounts[1]].data
             counter_data == CounterAccount_try_from_slice(data)
         IN  IF counter_data = None
             THEN Outcome(MalformedState, led, <<>>, <<>>)
             ELSE LET sum == checked_add(counter_data[1], U64Of(1))
                  IN  IF sum = None
                      THEN Outcome(ArithmeticOverflow, led, <<>>, <<>>)
                      ELSE Outcome("Ok",
                                   [led EXCEPT ![accounts[1]].data =
                                        CounterAccount_serialize(sum[1], data).buf],
                                   <<>>, <<"Counter incremented to: {}">>)

\* Mutant of process_increment_counter: the stored bytes are decoded and the
\* sum is formed before the owner is looked at.
process_increment_counter_decode_first(program_id, led, accounts) ==
    IF Len(accounts) < 1
    THEN Outcome(NotEnoughAccounts, led, <<>>, <<>>)
    ELSE LET counter_account == accounts[1]
             data == led[counter_account].data
             counter_data == CounterAccount_try_from_slice(data)
         IN  IF counter_data = None
             THEN Outcome(MalformedState, led, <<>>, <<>>)
             ELSE LET sum == checked_add(counter_data[1], U64Of(1))
                  IN  IF sum = None
                      THEN Outcome(ArithmeticOverflow, led, <<>>, <<>>)
                      ELSE IF led[counter_account].owner # program_id
                      THEN Outcome(IncorrectOwner, led, <<>>, <<>>)
                      ELSE LET written == CounterAccount_serialize(sum[1], data)
                               after == [led EXCEPT ![counter_account].data = written.buf]
                           IN  IF written.ok
                               THEN Outcome("Ok", after, <<>>,
                                            <<"Counter incremented to: {}">>)
                               ELSE Outcome(MalformedState, after, <<>>, <<>>)

\* Mutant of process_increment_counter: each call adds 2 to the count.
process_increment_counter_twice(program_id, led, accounts) ==
    IF Len(accounts) < 1
    THEN Outcome(NotEnoughAccounts, led, <<>>, <<>>)
    ELSE LET counter_account == accounts[1]
             data == led[counter_account].data
             counter_data == CounterAccount_try_from_slice(data)
         IN  IF led[counter_account].owner # program_id
             THEN Outcome(IncorrectOwner, led, <<>>, <<>>)
             ELSE IF counter_data = None
             THEN Outcome(MalformedState, led, <<>>, <<>>)
             ELSE LET sum == checked_add(counter_data[1], U64Of(2))
                  IN  IF sum = None
                      THEN Outcome(ArithmeticOverflow, led, <<>>, <<>>)
                      ELSE LET written == CounterAccount_serialize(sum[1], data)
                               after == [led EXCEPT ![counter_account].data = written.buf]
                           IN  IF written.ok
                               THEN Outcome("Ok", after, <<>>,
                                            <<"Counter incremented to: {}">>)
                               ELSE Outcome(MalformedState, after, <<>>, <<>>)

\* Mutant of process_increment_counter: the wrapped sum is written back before
\* the overflow is reported.
process_increment_counter_write_first(program_id, led, accounts) ==
    IF Len(accounts) < 1
    THEN Outcome(NotEnoughAccounts, led, <<>>, <<>>)
    ELSE LET data == led[accounts[1]].data
             counter_data == CounterAccount_try_from_slice(data)
         IN  IF led[accounts[1]].owner # program_id
             THEN Outcome(IncorrectOwner, led, <<>>, <<>>)
             ELSE IF counter_data = None
             THEN Outcome(MalformedState, led, <<>>, <<>>)
             ELSE LET wrapped == wrapping_add(counter_data[1], U64Of(1))[1]
                      after == [led EXCEPT ![accounts[1]].data =
                                    CounterAccount_serialize(wrapped, data).buf]
                  IN  IF checked_add(counter_data[1], U64Of(1)) = None
                      THEN Outcome(ArithmeticOverflow, after, <<>>, <<>>)
                      ELSE Outcome("Ok", after, <<>>, <<"Counter incremented to: {}">>)

process_increment_counter(program_id, led, accounts) ==
    IF Len(accounts) < 1
    THEN Outcome(NotEnoughAccounts, led, <<>>, <<>>)
    ELSE LET counter_account == accounts[1]
             data == led[counter_account].data
             counter_data == CounterAccount_try_from_slice(data)
         IN  IF led[counter_account].owner # program_id
             THEN Outcome(IncorrectOwner, led, <<>>, <<>>)
             ELSE IF counter_data = None
             THEN Outcome(MalformedState, led, <<>>, <<>>)
             ELSE LET sum == checked_add(counter_data[1], U64Of(1))
                  IN  IF sum = None
                      THEN Outcome(ArithmeticOverflow, led, <<>>, <<>>)
                      ELSE LET written == CounterAccount_serialize(sum[1], data)
                               after == [led EXCEPT ![counter_account].data = written.buf]
                           IN  IF written.ok
                               THEN Outcome("Ok", after, <<>>,
                                            <<"Counter incremented to: {}">>)
                               ELSE Outcome(MalformedState, after, <<>>, <<>>)

\* The counter program's entrypoint.
process_instruction(program_id, led, accounts, instruction_data) ==
    LET instruction == CounterInstruction_try_from_slice(instruction_data)
    IN  IF instruction = None
        THEN Outcome(InvalidInstruction, led, <<>>, <<>>)
        ELSE IF instruction[1].variant = "InitializeCounter"
        THEN LET o == process_initialize_counter(program_id, led, accounts,
                                                 instruction[1].initial_value)
             IN  [o EXCEPT !.logs = <<"Instruction: Initialize Counter">> \o @]
        ELSE LET o == process_increment_counter(program_id, led, accounts)
             IN  [o EXCEPT !.logs = <<"Instruction: Increment Counter">> \o @]

-----------------------------------------------------------------------------
(* byte-calculator                                                         *)

\* The i64 of an integer of small magnitude (below 2^31), in two's complement.
I64Of(n) ==
    IF n >= 0
    THEN <<n % LimbBase, n \div LimbBase, 0, 0>>
    ELSE <<LimbBase - 1 - ((-n - 1) % LimbBase), LimbBase - 1 - ((-n - 1) \div LimbBase),
           LimbBase - 1, LimbBase - 1>>

\* `byte as i64` of a u8: the cast zero-extends.
u8_as_i64(b) == b

Abs(n) == IF n < 0 THEN -n ELSE n

\* i64 division and remainder: the quotient truncates toward zero, the
\* remainder takes the dividend's sign.
i64_div(a, b) ==
    IF (a < 0) = (b < 0) THEN Abs(a) \div Abs(b) ELSE -(Abs(a) \div Abs(b))

i64_rem(a, b) == a - b * i64_div(a, b)

\* One column of the schoolbook product of two 8-byte numbers: the sum of
\* a[i] * b[k + 1 - i] over the byte positions i..8 that exist.
RECURSIVE ColumnSum(_, _, _, _)
ColumnSum(a, b, k, i) ==
    IF i > 8 \/ i > k
    THEN 0
    ELSE (IF k + 1 - i <= 8 THEN a[i] * b[k + 1 - i] ELSE 0) + ColumnSum(a, b, k, i + 1)

\* The product of two non-negative i64 in 64 bits: the wrapped product, and
\* whether the true product left the i64 range.
i64_mul(x, y) ==
    LET a == to_le_bytes(x)
        b == to_le_bytes(y)
        t[k \in 1..16] == ColumnSum(a, b, k, 1) + (IF k = 1 THEN 0 ELSE t[k - 1] \div 256)
        low == [k \in 1..8 |-> t[k] % 256]
    IN  [value |-> from_le_bytes(low),
         overflow |-> low[8] >= 128 \/ \E k \in 9..16 : t[k] % 256 # 0]

\* The loop of i64::pow, exponentiation by squaring: while more than one bit
\* of exp is left, acc is multiplied by base when the low bit is set and base
\* is squared; the last bit multiplies acc by base once more. `overflow`
\* gathers the overflows of the multiplications made.
RECURSIVE i64_pow_loop(_, _, _, _)
i64_pow_loop(acc, base, exp, overflow) ==
    IF exp > 1
    THEN LET odd == i64_mul(acc, base)
             square == i64_mul(base, base)
         IN  IF exp % 2 = 1
             THEN i64_pow_loop(odd.value, square.value, exp \div 2,
                               overflow \/ odd.overflow \/ square.overflow)
             ELSE i64_pow_loop(acc, square.value, exp \div 2, overflow \/ square.overflow)
    ELSE LET final == i64_mul(acc, base)
         IN  [value |-> final.value, overflow |-> overflow \/ final.overflow]

\* i64::pow(self, exp: u32) of a non-negative base.
i64_pow(base, exp) ==
    IF exp = 0
    THEN [value |-> I64Of(1), overflow |-> FALSE]
    ELSE i64_pow_loop(I64Of(1), I64Of(base), exp, FALSE)

\* What a call of the calculator returns: the result, the log lines written
\* (their format strings) and the value the "Result = {}" line reports.
CalcOutcome(result, logs, value) == [result |-> result, logs |-> logs, value |-> value]

\* The outcome of an operation that computed v, and of one that refused.
Done(line, v) == CalcOutcome("Ok", <<line, "Result = {}">>, Some(v))
Fail(line, why) == CalcOutcome("InvalidInstructionData", <<line, why>>, None)

\* Mutant of calculator_match: divide and modulus without the test of the
\* right operand, so that a zero divisor panics.
calculator_match_unguarded(operation, left, right, overflow_checks) ==
    CASE operation = 0 -> Done("Addition: {} + {}", I64Of(left + right))
      [] operation = 1 -> Done("Subtraction: {} - {}", I64Of(left - right))
      [] operation = 2 -> Done("Multiplication: {} * {}", I64Of(left * right))
      [] operation = 3 ->
           IF right # 0
           THEN Done("Division: {} / {}", I64Of(i64_div(left, right)))
           ELSE CalcOutcome("ProgramFailedToComplete", <<"Division: {} / {}">>, None)
      [] operation = 4 ->
           IF right # 0
           THEN Done("Modulus: {} % {}", I64Of(i64_rem(left, right)))
           ELSE CalcOutcome("ProgramFailedToComplete", <<"Modulus: {} % {}">>, None)
      [] operation = 5 ->
           LET p == i64_pow(left, right)
           IN  IF p.overflow /\ overflow_checks
               THEN CalcOutcome("ProgramFailedToComplete", <<"Power: {} ^ {}">>, None)
               ELSE Done("Power: {} ^ {}", p.value)
      [] OTHER ->
           CalcOutcome("InvalidInstructionData", <<"Unknown operation: {}">>, None)

\* The calculator's `match operation`. `overflow_checks` is the build's
\* setting: with it an overflowing i64 operation panics, without it the
\* operation wraps.
calculator_match(operation, left, right, overflow_checks) ==
    CASE operation = 0 -> Done("Addition: {} + {}", I64Of(left + right))
      [] operation = 1 -> Done("Subtraction: {} - {}", I64Of(left - right))
      [] operation = 2 -> Done("Multiplication: {} * {}", I64Of(left * right))
      [] operation = 3 ->
           IF right # 0
           THEN Done("Division: {} / {}", I64Of(i64_div(left, right)))
           ELSE Fail("Division: {} / {}", "Division by zero is not allowed")
      [] operation = 4 ->
           IF right # 0
           THEN Done("Modulus: {} % {}", I64Of(i64_rem(left, right)))
           ELSE Fail("Modulus: {} % {}", "Modulus by zero is not allowed")
      [] operation = 5 ->
           IF right >= 0
           THEN LET p == i64_pow(left, right)
                IN  IF p.overflow /\ overflow_checks
                    THEN CalcOutcome("ProgramFailedToComplete", <<"Power: {} ^ {}">>, None)
                    ELSE Done("Power: {} ^ {}", p.value)
           ELSE Fail("Power: {} ^ {}", "Negative exponent is not allowed")
      [] OTHER ->
           CalcOutcome("InvalidInstructionData", <<"Unknown operation: {}">>, None)

\* Mutant of calculator_process_instruction: a payload of fewer than 3 bytes
\* is refused instead of accepted.
calculator_process_instruction_strict(instruction_data, overflow_checks) ==
    IF Len(instruction_data) < 3
    THEN CalcOutcome("InvalidInstructionData", <<"Need opcode + 2 operands">>, None)
    ELSE calculator_match(instruction_data[1], u8_as_i64(instruction_data[2]),
                          u8_as_i64(instruction_data[3]), overflow_checks)

\* The calculator's process_instruction: a payload of fewer than 3 bytes is
\* logged and accepted; otherwise the opcode and the two widened operands go
\* through the match.
calculator_process_instruction(instruction_data, overflow_checks) ==
    IF Len(instruction_data) < 3
    THEN CalcOutcome("Ok", <<"Need opcode + 2 operands">>, None)
    ELSE LET operation == instruction_data[1]
             left == u8_as_i64(instruction_data[2])
             right == u8_as_i64(instruction_data[3])
         IN  calculator_match(operation, left, right, overflow_checks)

-----------------------------------------------------------------------------
(* The environment: what the ledger holds at first, and the calls it makes *)

\* Initial values a caller asks for: the test's 42, a value whose increment
\* carries into the next limb, and the two largest.
InitialValues == {U64Of(42), U64Of(LimbBase - 1),
                  <<LimbBase - 2, LimbBase - 1, LimbBase - 1, LimbBase - 1>>, U64_MAX}

Bytes(n, b) == [i \in 1..n |-> b]

\* Payloads handed to the counter program: borsh's encodings of the two
\* instructions, and malformed ones.
CounterPayloads ==
    {<<0>> \o to_le_bytes(v) : v \in InitialValues}
    \cup {<<1>>}
    \cup {<<>>, <<2>>, <<0>> \o Bytes(7, 0), <<0>> \o Bytes(9, 0), <<1, 0>>}

Targets == {"counter_a", "counter_b", "foreign", "short", "long"}

\* Account lists handed to a call, by protocol position.
AccountLists ==
    {<<>>, <<"counter_a", "payer">>}
    \cup {<<t>> : t \in Targets}
    \cup {<<t, "payer", SystemProgram>> : t \in {"counter_a", "counter_b", "foreign"}}
    \cup {<<"counter_a", "poor", SystemProgram>>, <<"counter_a", "payer", "payer">>}

\* What the bytes of an account of another program may hold.
ForeignData == {Bytes(7, 1), to_le_bytes(U64Of(42)), to_le_bytes(U64_MAX)}

\* The payloads the example client sends to the calculator.
ClientPayloads == {<<0, 15, 7>>, <<1, 20, 8>>, <<2, 6, 4>>, <<3, 24, 6>>,
                   <<4, 17, 5>>, <<5, 3, 4>>}

\* Operand bytes tried with every opcode: small ones, a zero right operand,
\* bytes above 127, and exponents on both sides of the i64 range.
OperandPairs == {<<24, 6>>, <<24, 0>>, <<1, 255>>, <<2, 62>>, <<2, 63>>}

Opcodes == 0..6

CalculatorPayloads ==
    ClientPayloads
    \cup {<<op, p[1], p[2]>> : op \in Opcodes, p \in OperandPairs}
    \cup {<<255, 24, 6>>}
    \cup {<<>>, <<3>>, <<6, 1>>, <<3, 24>>, <<3, 24, 6, 9>>}

\* The calculator's outcome for each payload and build setting: the entrypoint
\* reads nothing but its instruction bytes, so it is evaluated once per input.
CalculatorOutcomes ==
    [data \in CalculatorPayloads |->
        [overflow_checks \in BOOLEAN |->
            calculator_process_instruction(data, overflow_checks)]]

\* Account lists handed to the calculator, which reads none of them.
CalculatorAccountLists == {<<>>, <<"counter_a">>}

\* The identity the example client calls the calculator by.
CalculatorProgram == "calculator_program"

\* Mutant of calculator_entrypoint: the calculator keeps its last result in
\* the first account it is handed.
calculator_entrypoint_stores_result(program_id, led, accounts, data, checks) ==
    LET o == CalculatorOutcomes[data][checks]
    IN  [outcome |-> o,
         ledger |-> IF Len(accounts) >= 1 /\ o.value # None
                    THEN [led EXCEPT ![accounts[1]].data = <<data[1]>>]
                    ELSE led]

\* The calculator as the runtime enters it: process_instruction reads neither
\* program_id nor accounts, so the outcome is the one its instruction bytes
\* give and the ledger comes back as it went in.
calculator_entrypoint(program_id, led, accounts, data, checks) ==
    [outcome |-> CalculatorOutcomes[data][checks],
     ledger |-> led]

\* No Initialize has succeeded on the address yet.
NoTally == [initial |-> None, increments |-> 0]

\* The tally after a call of the counter program: a successful Initialize
\* notes the 8 bytes the client sent as the initial value, a successful
\* Increment adds one to the target's number, any other call leaves it.
count_success(t, instruction_data, accounts, result) ==
    IF result # "Ok"
    THEN t
    ELSE IF instruction_data[1] = 0
    THEN [t EXCEPT ![accounts[1]] = [initial |-> Some(SubSeq(instruction_data, 2, 9)),
                                      increments |-> 0]]
    ELSE [t EXCEPT ![accounts[1]].increments = @ + 1]

NoCall == [prog |-> "none", data |-> <<>>, accounts |-> <<>>, result |-> "Ok",
           cpi |-> <<>>, logs |-> <<>>, value |-> None]

Init ==
    /\ \E fd \in ForeignData :
         ledger = [a \in Addresses |->
                     CASE a = "payer" -> [lamports |-> AirdropLamports,
                                          owner |-> SystemProgram, data |-> <<>>]
                       [] a = "poor" -> [lamports |-> minimum_balance(account_space) - 1,
                                         owner |-> SystemProgram, data |-> <<>>]
                       [] a = "foreign" -> [lamports |-> minimum_balance(Len(fd)),
                                            owner |-> OtherProgram, data |-> fd]
                       [] a = "short" -> [lamports |-> minimum_balance(7),
                                          owner |-> CounterProgram, data |-> Bytes(7, 255)]
                       [] a = "long" -> [lamports |-> minimum_balance(9),
                                         owner |-> CounterProgram, data |-> Bytes(9, 0)]
                       [] a = SystemProgram -> [lamports |-> 1, owner |-> "native_loader",
                                                data |-> <<>>]
                       [] OTHER -> Absent]
    /\ pre = ledger
    /\ last = NoCall
    /\ ncalls = 0
    /\ tally = [a \in Addresses |-> NoTally]

\* The ledger environment calls the counter program's entrypoint.
CounterCall ==
    /\ ncalls < MaxCalls
    /\ \E data \in CounterPayloads, accounts \in AccountLists :
         LET o == process_instruction(CounterProgram, ledger, accounts, data)
         IN  /\ ledger' = o.ledger
             /\ last' = [prog |-> "counter", data |-> data, accounts |-> accounts,
                         result |-> o.result, cpi |-> o.cpi, logs |-> o.logs,
                         value |-> None]
             /\ tally' = count_success(tally, data, accounts, o.result)
    /\ pre' = ledger
    /\ ncalls' = ncalls + 1

\* The ledger environment calls the calculator's entrypoint.
CalculatorCall ==
    /\ ncalls < MaxCalls
    /\ \E data \in CalculatorPayloads, accounts \in CalculatorAccountLists,
          overflow_checks \in BOOLEAN :
         LET e == calculator_entrypoint(CalculatorProgram, ledger, accounts, data,
                                        overflow_checks)
             o == e.outcome
         IN  /\ last' = [prog |-> "calculator", data |-> data, accounts |-> accounts,
                         result |-> o.result, cpi |-> <<>>, logs |-> o.logs,
                         value |-> o.value]
             /\ ledger' = e.ledger
    /\ pre' = ledger
    /\ tally' = tally
    /\ ncalls' = ncalls + 1

Next == CounterCall \/ CalculatorCall

Spec == Init /\ [][Next]_vars

-----------------------------------------------------------------------------
(* Properties                                                              *)

\* The last call was made to the counter program / to the calculator.
CounterCalled == last.prog = "counter"
CalculatorCalled == last.prog = "calculator"

\* The payload is borsh's encoding of IncrementCounter / of InitializeCounter.
IsIncrementPayload(d) == d = <<1>>
IsInitializePayload(d) == Len(d) = 9 /\ d[1] = 0

\* The account at protocol position 0 of the last call.
Target == last.accounts[1]

\* A present counter record of the program: 8 bytes, owned by it.
IsCounterRecord(acct) ==
    IsPresent(acct) /\ acct.owner = CounterProgram /\ Len(acct.data) = 8

\* b is the little-endian number a plus one: the low bytes that were 255 are
\* 0, the first byte that was not is one more, the bytes above are the same.
IsSuccessorLE(a, b) ==
    /\ Len(a) = 8 /\ Len(b) = 8
    /\ \E k \in 1..8 :
         /\ \A i \in 1..(k - 1) : a[i] = 255 /\ b[i] = 0
         /\ b[k] = a[k] + 1
         /\ \A i \in (k + 1)..8 : b[i] = a[i]

\* C1: Increment on a present record of the program whose count n is below
\* 2^64 - 1 succeeds and leaves the record present, owned as before, with
\* count n + 1 in the same 8 bytes.
C1_IncrementAddsOne ==
    (/\ CounterCalled /\ IsIncrementPayload(last.data) /\ Len(last.accounts) >= 1
     /\ IsCounterRecord(pre[Target]) /\ pre[Target].data # Bytes(8, 255))
    => /\ last.result = "Ok"
       /\ IsSuccessorLE(pre[Target].data, ledger[Target].data)
       /\ IsCounterRecord(ledger[Target])
       /\ ledger[Target].lamports = pre[Target].lamports
       /\ \A a \in Addresses \ {Target} : ledger[a] = pre[a]

\* An Increment of 65535 carried into the third byte.
C1_Witness ==
    /\ CounterCalled /\ IsIncrementPayload(last.data) /\ last.result = "Ok"
    /\ Len(last.accounts) >= 1
    /\ pre[Target].data = <<255, 255, 0, 0, 0, 0, 0, 0>>
    /\ ledger[Target].data = <<0, 0, 1, 0, 0, 0, 0, 0>>

\* C2: Increment on a present record of the program whose count is 2^64 - 1
\* fails with ArithmeticOverflow and leaves the stored bytes as they were.
C2_OverflowRejected ==
    (/\ CounterCalled /\ IsIncrementPayload(last.data) /\ Len(last.accounts) >= 1
     /\ IsCounterRecord(pre[Target]) /\ pre[Target].data = Bytes(8, 255))
    => /\ last.result = ArithmeticOverflow
       /\ ledger[Target].data = Bytes(8, 255)
       /\ ledger = pre

\* An Increment met the largest count, which an Increment had produced.
C2_Witness ==
    /\ CounterCalled /\ IsIncrementPayload(last.data) /\ Len(last.accounts) >= 1
    /\ last.result = ArithmeticOverflow
    /\ IsCounterRecord(pre[Target]) /\ pre[Target].data = Bytes(8, 255)
    /\ ncalls = 3

\* C3: Increment on an account that the program does not own, an address
\* never initialized included, fails with IncorrectOwner and writes nothing,
\* whatever the account's bytes are.
C3_OwnershipGate ==
    (/\ CounterCalled /\ IsIncrementPayload(last.data) /\ Len(last.accounts) >= 1
     /\ pre[Target].owner # CounterProgram)
    => /\ last.result = IncorrectOwner
       /\ ledger = pre

\* Increment was refused on another program's account whose 8 bytes hold a
\* count that could have been incremented.
C3_Witness ==
    /\ CounterCalled /\ IsIncrementPayload(last.data) /\ Len(last.accounts) >= 1
    /\ last.result = IncorrectOwner
    /\ pre[Target].owner = OtherProgram
    /\ pre[Target].data = to_le_bytes(U64Of(42))

\* The last call was an Initialize whose request the account-creation service
\* carried out.
Provisioned ==
    /\ CounterCalled /\ IsInitializePayload(last.data) /\ Len(last.accounts) >= 3
    /\ last.cpi # <<>> /\ last.cpi[1].answer = "Ok"

\* C4 (state part): Initialize(v) on an absent address, provisioned, leaves
\* the address present with 8 bytes, owned by the program, holding v.
C4_Initialized ==
    (Provisioned /\ ~IsPresent(pre[Target]))
    => /\ last.result = "Ok"
       /\ ledger[Target] = [lamports |-> minimum_balance(account_space),
                            owner |-> CounterProgram,
                            data |-> SubSeq(last.data, 2, 9)]

\* C4 (step part): an Increment issued next on that address succeeds and
\* yields v + 1, when v is below 2^64 - 1.
C4_ThenIncrement ==
    (/\ Provisioned /\ last.result = "Ok"
     /\ SubSeq(last.data, 2, 9) # Bytes(8, 255)
     /\ last'.prog = "counter" /\ IsIncrementPayload(last'.data)
     /\ Len(last'.accounts) >= 1 /\ last'.accounts[1] = Target)
    => /\ last'.result = "Ok"
       /\ IsSuccessorLE(SubSeq(last.data, 2, 9), ledger'[Target].data)

\* C4: for every initial value v, Initialize(v) on an absent address with a
\* successful provisioning call leaves the address present with 8 bytes, owned
\* by the program, with count v; the Increment issued next on it succeeds and
\* yields v + 1 (v below the maximum).
C4_InitializeThenIncrement == []C4_Initialized /\ [][C4_ThenIncrement]_vars

\* The test's scenario: Initialize(42) on a fresh address, then Increment.
C4_Witness ==
    /\ ncalls = 2
    /\ CounterCalled /\ IsIncrementPayload(last.data) /\ last.result = "Ok"
    /\ last.accounts = <<"counter_b">>
    /\ pre["counter_b"].data = to_le_bytes(U64Of(42))
    /\ ledger["counter_b"].data = to_le_bytes(U64Of(43))

\* C5: a call of the counter dispatcher that returns an error leaves every
\* account's existence, owner and bytes as they were; bytes change only in a
\* call that succeeds.
C5_ErrorsWriteNothing ==
    CounterCalled =>
        /\ last.result # "Ok" => ledger = pre
        /\ last.result \in {"Ok", InvalidInstruction, NotEnoughAccounts, IncorrectOwner,
                            ArithmeticOverflow, MalformedState} \cup ProvisioningFailed

\* An Increment failed on stored bytes that do not decode, after earlier
\* calls had written to the ledger.
C5_Witness ==
    /\ CounterCalled /\ last.result = MalformedState
    /\ last.accounts = <<"short">>
    /\ IsCounterRecord(ledger["counter_a"])

\* The payload is none of the two instructions' encodings: it is empty, its
\* tag is unknown, or the bytes after the tag are not exactly the variant's.
IsMalformedPayload(d) ==
    \/ Len(d) = 0
    \/ Len(d) >= 1 /\ d[1] \notin {0, 1}
    \/ Len(d) >= 1 /\ d[1] = 0 /\ Len(d) # 9
    \/ Len(d) >= 1 /\ d[1] = 1 /\ Len(d) # 1

\* C6: the dispatcher fails with InvalidInstruction, and runs no handler, on
\* every payload that is empty, has an unknown tag, is an Initialize tag
\* followed by other than 8 bytes, or is an Increment tag followed by any
\* byte; a truncated Initialize is not taken for Initialize(0).
C6_DecoderRejects ==
    (CounterCalled /\ IsMalformedPayload(last.data))
    => /\ last.result = InvalidInstruction
       /\ last.logs = <<>>
       /\ last.cpi = <<>>
       /\ ledger = pre

\* A truncated Initialize (7 zero bytes after the tag) was rejected on an
\* account list with which Initialize(0) would have created the record.
C6_Witness ==
    /\ CounterCalled /\ last.data = <<0>> \o Bytes(7, 0)
    /\ last.accounts = <<"counter_a", "payer", SystemProgram>>
    /\ ~IsPresent(pre["counter_a"])
    /\ last.result = InvalidInstruction

\* C7: Initialize with fewer than three account references fails with
\* NotEnoughAccounts before the account-creation service is invoked: no
\* request is issued, no balance moves, nothing is written.
C7_NotEnoughAccounts ==
    (CounterCalled /\ IsInitializePayload(last.data) /\ Len(last.accounts) < 3)
    => /\ last.result = NotEnoughAccounts
       /\ last.cpi = <<>>
       /\ ledger = pre

\* Initialize was refused with the target and the funder but no system
\* program, on an absent target the funder could pay for.
C7_Witness ==
    /\ CounterCalled /\ IsInitializePayload(last.data)
    /\ last.accounts = <<"counter_a", "payer">>
    /\ ~IsPresent(pre["counter_a"])
    /\ last.result = NotEnoughAccounts

\* The last call was an Initialize whose request the account-creation service
\* rejected.
ProvisioningRejected ==
    /\ CounterCalled /\ IsInitializePayload(last.data) /\ Len(last.accounts) >= 3
    /\ last.cpi # <<>> /\ last.cpi[1].answer # "Ok"

\* C8: when the account-creation service rejects Initialize's request, the
\* call fails with ProvisioningFailed and writes nothing; a record already
\* present at the target keeps its count and owner; and an address leaves
\* absent only by a successful Initialize on it.
C8_ProvisioningFailure ==
    /\ ProvisioningRejected =>
         /\ last.result \in ProvisioningFailed
         /\ last.result = last.cpi[1].answer
         /\ ledger = pre
    /\ (CounterCalled /\ IsInitializePayload(last.data) /\ Len(last.accounts) >= 1
        /\ IsPresent(pre[Target])) =>
         /\ last.result # "Ok"
         /\ ledger[Target] = pre[Target]
    /\ \A a \in Addresses :
         (~IsPresent(pre[a]) /\ IsPresent(ledger[a])) =>
             /\ CounterCalled /\ IsInitializePayload(last.data)
             /\ last.result = "Ok" /\ Target = a

\* Initialize(42) was rejected on an address whose record the program had
\* created with another count.
C8_Witness ==
    /\ ProvisioningRejected
    /\ last.result = "AccountAlreadyInUse"
    /\ last.data = <<0>> \o to_le_bytes(U64Of(42))
    /\ IsCounterRecord(pre[Target])
    /\ pre[Target].data = <<0, 0, 1, 0, 0, 0, 0, 0>>

\* The 8 bytes are the little-endian digits of the count: each 16-bit limb is
\* its low byte plus 256 times its high byte.
IsLittleEndianOf(bytes, count) ==
    /\ Len(bytes) = 8
    /\ \A i \in 1..8 : bytes[i] \in 0..255
    /\ \A k \in 1..4 : bytes[2 * k - 1] + 256 * bytes[2 * k] = count[k]

\* The counts the model meets: the initial values asked for, and the count of
\* every 8-byte buffer in the ledger.
CountsMet ==
    InitialValues \cup {from_le_bytes(ledger[a].data) :
                          a \in {x \in Addresses : Len(ledger[x].data) = 8}}

\* C9: encode yields exactly the 8 little-endian bytes of the count and decode
\* inverts it, for every count; the bytes Initialize and Increment write are
\* this encoding.
C9_CodecRoundTrip ==
    /\ \A c \in CountsMet :
         /\ IsLittleEndianOf(to_le_bytes(c), c)
         /\ CounterAccount_try_from_slice(to_le_bytes(c)) = Some(c)
         /\ CounterAccount_serialize(c, Bytes(8, 0)) = [ok |-> TRUE, buf |-> to_le_bytes(c)]
    /\ \A a \in Addresses :
         (CounterCalled /\ ledger[a].data # pre[a].data) =>
             LET written == ledger[a].data
                 decoded == CounterAccount_try_from_slice(written)
             IN  /\ Len(written) = 8
                 /\ decoded # None
                 /\ IsLittleEndianOf(written, decoded[1])
                 /\ to_le_bytes(decoded[1]) = written
                 /\ IsInitializePayload(last.data) => written = SubSeq(last.data, 2, 9)
                 /\ IsIncrementPayload(last.data) => IsSuccessorLE(pre[a].data, written)

\* Initialize(2^64 - 2) wrote FE FF FF FF FF FF FF FF.
C9_Witness ==
    /\ CounterCalled /\ IsInitializePayload(last.data) /\ last.result = "Ok"
    /\ ledger[Target].data = <<254, 255, 255, 255, 255, 255, 255, 255>>
    /\ pre[Target].data = <<>>

\* Natural numbers of any size, for the exact value of a power: the base-256
\* digits, least significant first, with no zero at the top.
RECURSIVE BigNormal(_)
BigNormal(a) ==
    IF a # <<>> /\ a[Len(a)] = 0 THEN BigNormal(SubSeq(a, 1, Len(a) - 1)) ELSE a

RECURSIVE BigColumn(_, _, _, _)
BigColumn(a, b, k, i) ==
    IF i > Len(a) \/ i > k
    THEN 0
    ELSE (IF k + 1 - i <= Len(b) THEN a[i] * b[k + 1 - i] ELSE 0) + BigColumn(a, b, k, i + 1)

BigMul(a, b) ==
    LET n == Len(a) + Len(b)
        t[k \in 1..n] == BigColumn(a, b, k, 1) + (IF k = 1 THEN 0 ELSE t[k - 1] \div 256)
    IN  BigNormal([k \in 1..n |-> t[k] % 256])

\* base to the power exp, exactly.
RECURSIVE BigPow(_, _)
BigPow(base, exp) ==
    IF exp = 0
    THEN <<1>>
    ELSE LET half == BigPow(base, exp \div 2)
             square == BigMul(half, half)
         IN  IF exp % 2 = 1 THEN BigMul(square, BigNormal(<<base>>)) ELSE square

\* The i64 holds exactly the natural number: the number is below 2^63 and the
\* i64's bytes are its digits.
I64IsBig(x, big) ==
    /\ Len(big) <= 8
    /\ Len(big) = 8 => big[8] < 128
    /\ to_le_bytes(x) = big \o Bytes(8 - Len(big), 0)

\* The exact powers of the operand pairs tried.
ExactPowers == [p \in {<<d[2], d[3]>> : d \in {x \in CalculatorPayloads : Len(x) >= 3}} |->
                   BigPow(p[1], p[2])]

\* C10: for every opcode in 0..5 and operand bytes to which no failure
\* condition applies, the calculator's result is the exact mathematical value
\* of the operation on the widened operands: nothing overflows or wraps.
C10_ExactResult ==
    LET op == last.data[1]
        left == last.data[2]
        right == last.data[3]
    IN  (/\ CalculatorCalled /\ Len(last.data) >= 3 /\ op \in 0..5
         /\ op \in {3, 4} => right # 0)
        => /\ last.result = "Ok"
           /\ last.value # None
           /\ CASE op = 0 -> last.value[1] = I64Of(left + right)
                [] op = 1 -> last.value[1] = I64Of(left - right)
                [] op = 2 -> last.value[1] = I64Of(left * right)
                [] op = 3 -> last.value[1] = I64Of(left \div right)
                [] op = 4 -> last.value[1] = I64Of(left % right)
                [] op = 5 -> I64IsBig(last.value[1], ExactPowers[<<left, right>>])

\* The opcode and the operand bytes of the calculator's last payload.
Opcode == last.data[1]
RightByte == last.data[3]

\* The last call of the calculator failed with the given diagnostic after the
\* operation's own line, and reported no result.
FailedWith(why) ==
    /\ last.result = "InvalidInstructionData"
    /\ last.value = None
    /\ Len(last.logs) >= 1 /\ last.logs[Len(last.logs)] = why
    /\ \A i \in 1..Len(last.logs) : last.logs[i] # "Result = {}"

\* C11: for every left operand the calculator fails, with no result, on
\* divide by 0 (DivisionByZero), on modulus by 0 (ModulusByZero) and on every
\* opcode outside 0..5 (UnknownOperation); every other payload of 3 bytes
\* with an opcode in 0..4 succeeds.
C11_CalculatorFailures ==
    (CalculatorCalled /\ Len(last.data) >= 3) =>
        /\ (Opcode = 3 /\ RightByte = 0) => FailedWith("Division by zero is not allowed")
        /\ (Opcode = 4 /\ RightByte = 0) => FailedWith("Modulus by zero is not allowed")
        /\ Opcode \notin 0..5 => FailedWith("Unknown operation: {}")
        /\ (Opcode \in 0..4 /\ ~(Opcode \in {3, 4} /\ RightByte = 0)) =>
              /\ last.result = "Ok"
              /\ last.value # None
              /\ last.logs[Len(last.logs)] = "Result = {}"

\* The calculator refused modulus(24, 0).
C11_Witness ==
    /\ CalculatorCalled /\ last.data = <<4, 24, 0>>
    /\ FailedWith("Modulus by zero is not allowed")

\* A byte read as a signed integer of 8 bits.
SignedByte(b) == IF b >= 128 THEN b - 256 ELSE b

\* C12: the calculator reads each operand byte as a signed integer of one
\* byte before widening it, so a power whose right operand is negative (the
\* byte 255 is -1) fails with NegativeExponent and computes nothing.
C12_SignedOperands ==
    (/\ CalculatorCalled /\ Len(last.data) >= 3
     /\ Opcode = 5 /\ SignedByte(RightByte) < 0) =>
        FailedWith("Negative exponent is not allowed")

\* C13: a calculator payload of fewer than 3 bytes, the empty one included,
\* is accepted: the call succeeds, computes nothing and reports no result,
\* whatever the bytes are.
C13_ShortPayloadAccepted ==
    (CalculatorCalled /\ Len(last.data) < 3) =>
        /\ last.result = "Ok"
        /\ last.value = None
        /\ last.logs = <<"Need opcode + 2 operands">>

\* A 2-byte payload whose opcode is outside 0..5 was accepted.
C13_Witness ==
    /\ CalculatorCalled /\ last.data = <<6, 1>>
    /\ last.result = "Ok" /\ last.value = None

\* C14: an error is reported at the earliest failing check, in the order
\* decode, validate, mutate: an undecodable payload gives InvalidInstruction
\* even when the account list is empty or names an account of another owner;
\* Increment on an account of another owner gives IncorrectOwner even when
\* its bytes are undecodable or hold the maximum count; ArithmeticOverflow is
\* reported only after the ownership check and the state decoding passed.
C14_EarliestCheckWins ==
    CounterCalled =>
        /\ IsMalformedPayload(last.data) => last.result = InvalidInstruction
        /\ (/\ IsIncrementPayload(last.data) /\ Len(last.accounts) >= 1
            /\ pre[Target].owner # CounterProgram) =>
              /\ last.result = IncorrectOwner
              /\ ledger = pre
        /\ last.result = ArithmeticOverflow =>
              /\ IsIncrementPayload(last.data) /\ Len(last.accounts) >= 1
              /\ pre[Target].owner = CounterProgram
              /\ Len(pre[Target].data) = 8

\* Increment on an account of another program that holds the maximum count
\* was refused for its owner, not for the overflow.
C14_Witness ==
    /\ CounterCalled /\ IsIncrementPayload(last.data)
    /\ last.accounts = <<"foreign">>
    /\ pre["foreign"].data = Bytes(8, 255)
    /\ last.result = IncorrectOwner

\* The last call was an Increment on an account the program owned.
IncrementOnOwned ==
    /\ CounterCalled /\ IsIncrementPayload(last.data)
    /\ Len(last.accounts) >= 1
    /\ pre[Target].owner = CounterProgram

\* C15, as stated: during Increment the decoding of the stored bytes fails
\* with MalformedState only when the program-owned buffer is shorter than 8
\* bytes, a buffer of at least 8 bytes always decodes, and a call that fails
\* with MalformedState leaves the buffer unchanged.
C15_OnlyShortBuffersFail ==
    IncrementOnOwned =>
        /\ last.result = MalformedState <=> Len(pre[Target].data) < 8
        /\ last.result = MalformedState => ledger = pre

\* C15, amended: during Increment the decoding of the stored bytes fails with
\* MalformedState exactly when the program-owned buffer is not 8 bytes long,
\* shorter or longer; a buffer of exactly 8 bytes always decodes; a call that
\* fails with MalformedState leaves the buffer unchanged.
C15_OnlyEightBytesDecode ==
    IncrementOnOwned =>
        /\ last.result = MalformedState <=> Len(pre[Target].data) # 8
        /\ last.result = MalformedState => ledger = pre

\* Increment on a program-owned buffer of 9 bytes failed with MalformedState
\* and left the 9 bytes as they were.
C15_Witness ==
    /\ IncrementOnOwned
    /\ Len(pre[Target].data) = 9
    /\ last.result = MalformedState
    /\ ledger[Target].data = pre[Target].data

\* What an Increment on address a would return in the current state.
IncrementOn(a) == process_instruction(CounterProgram, ledger, <<a>>, <<1>>)

\* C16, as stated: the counter has no terminal state; in every reachable
\* state, an Increment on each address that holds a record of the program
\* can be called and succeeds.
C16_AlwaysIncrementable ==
    \A a \in Addresses :
        IsCounterRecord(ledger[a]) => IncrementOn(a).result = "Ok"

\* C16, amended: in every reachable state, an Increment on each address that
\* holds a record of the program with a count below 2^64 - 1 can be called,
\* succeeds and leaves a record of the program there; a record at 2^64 - 1 is
\* terminal: Increment on it fails with ArithmeticOverflow and changes
\* nothing.
C16_IncrementableBelowMax ==
    \A a \in Addresses :
        IsCounterRecord(ledger[a]) =>
            IF ledger[a].data # to_le_bytes(U64_MAX)
            THEN /\ IncrementOn(a).result = "Ok"
                 /\ IsCounterRecord(IncrementOn(a).ledger[a])
                 /\ IsSuccessorLE(ledger[a].data, IncrementOn(a).ledger[a].data)
            ELSE /\ IncrementOn(a).result = ArithmeticOverflow
                 /\ IncrementOn(a).ledger = ledger

\* An Increment has just succeeded on a record, and the record it left, below
\* the maximum, can be incremented again.
C16_Witness ==
    /\ CounterCalled /\ IsIncrementPayload(last.data) /\ last.result = "Ok"
    /\ IsCounterRecord(ledger[Target])
    /\ ledger[Target].data # to_le_bytes(U64_MAX)
    /\ IncrementOn(Target).result = "Ok"

\* The ledgers, identities and account lists a calculator call is compared
\* over: the ledger before the last call and the one after it, the one in
\* which counter_a was never created, every program identity and account
\* list.
EmptiedLedger == [a \in Addresses |-> IF a = "counter_a" THEN Absent ELSE pre[a]]
AnyLedger == {ledger, pre, EmptiedLedger}
AnyProgram == {CalculatorProgram, CounterProgram, OtherProgram}
AnyAccountList == CalculatorAccountLists \cup AccountLists

\* C17: the calculator keeps no state and touches no account: the outcome of
\* a call (success or which error, and the value) is a function of the
\* instruction bytes alone, the same whatever calls preceded it and whatever
\* accounts and program identity it is given, and every account it is given
\* is unchanged after the call.
C17_CalculatorIsPure ==
    CalculatorCalled =>
        /\ ledger = pre
        /\ \E overflow_checks \in BOOLEAN :
             LET o == CalculatorOutcomes[last.data][overflow_checks]
             IN  /\ last.result = o.result /\ last.value = o.value /\ last.logs = o.logs
                 /\ \A program_id \in AnyProgram, led \in AnyLedger,
                       accounts \in AnyAccountList :
                      LET e == calculator_entrypoint(program_id, led, accounts,
                                                     last.data, overflow_checks)
                      IN  e.outcome = o /\ e.ledger = led

\* The calculator computed a value when handed a record of the counter
\* program that an earlier call had created, and left it as it was.
C17_Witness ==
    /\ CalculatorCalled /\ last.accounts = <<"counter_a">>
    /\ last.result = "Ok" /\ last.value # None
    /\ IsCounterRecord(pre["counter_a"])
    /\ ledger["counter_a"] = pre["counter_a"]

\* The little-endian bytes of the count after b, or the empty sequence when b
\* is the largest count.
SuccLE(b) ==
    IF \A i \in 1..8 : b[i] = 255
    THEN <<>>
    ELSE LET k == CHOOSE k \in 1..8 : b[k] # 255 /\ \A i \in 1..(k - 1) : b[i] = 255
         IN  [i \in 1..8 |-> IF i < k THEN 0 ELSE IF i = k THEN b[i] + 1 ELSE b[i]]

\* b plus n, byte by byte, or the empty sequence when the sum passes the
\* largest count.
RECURSIVE PlusLE(_, _)
PlusLE(b, n) ==
    IF n = 0 \/ b = <<>> THEN b ELSE PlusLE(SuccLE(b), n - 1)

\* a <= b as little-endian counts of 8 bytes.
LeqLE(a, b) ==
    \/ a = b
    \/ \E k \in 1..8 : a[k] < b[k] /\ \A i \in (k + 1)..8 : a[i] = b[i]

\* C18: once Initialize(v) has succeeded on an address, then after any
\* further successful and failed Initialize and Increment calls on any
\* addresses the address is present and owned by the program, its count has
\* not decreased, and its count is v plus the number of Increment calls that
\* succeeded on it.
C18_CountIsInitialPlusIncrements ==
    \A a \in Addresses :
        tally[a].initial # None =>
            /\ IsCounterRecord(ledger[a])
            /\ ledger[a].data = PlusLE(tally[a].initial[1], tally[a].increments)
            /\ IsCounterRecord(pre[a]) => LeqLE(pre[a].data, ledger[a].data)
            /\ LeqLE(tally[a].initial[1], ledger[a].data)

\* Two Increment calls have succeeded on an address initialized with 42, and
\* it holds 44.
C18_Witness ==
    \E a \in Addresses :
        /\ tally[a].initial = Some(to_le_bytes(U64Of(42)))
        /\ tally[a].increments = 2
        /\ ledger[a].data = <<44, 0, 0, 0, 0, 0, 0, 0>>

\* The last call was a successful Increment, a successful Initialize.
IncrementSucceeded ==
    CounterCalled /\ IsIncrementPayload(last.data) /\ last.result = "Ok"
InitializeSucceeded ==
    CounterCalled /\ IsInitializePayload(last.data) /\ last.result = "Ok"

\* C19: a successful Increment changes only the count bytes of the account at
\* position 0 of its account list; a successful Initialize changes only the
\* target address (created, owned by the program, count written) and the
\* funder's balance (reduced by the minimum balance for 8 bytes); every other
\* address keeps its existence, owner and count.
C19_Frame ==
    /\ IncrementSucceeded =>
          /\ \A a \in Addresses \ {Target} : ledger[a] = pre[a]
          /\ ledger[Target].owner = pre[Target].owner
          /\ ledger[Target].lamports = pre[Target].lamports
          /\ Len(ledger[Target].data) = Len(pre[Target].data)
          /\ ledger[Target].data # pre[Target].data
    /\ InitializeSucceeded =>
          LET funder == last.accounts[2]
          IN  /\ \A a \in Addresses \ {Target, funder} : ledger[a] = pre[a]
              /\ funder # Target
              /\ ledger[funder] = [pre[funder] EXCEPT
                                      !.lamports = @ - minimum_balance(account_space)]
              /\ ~IsPresent(pre[Target])
              /\ ledger[Target] = [lamports |-> minimum_balance(account_space),
                                   owner |-> CounterProgram,
                                   data |-> SubSeq(last.data, 2, 9)]

\* A second address was initialized while the first held a record, which
\* stayed as it was; the funder's balance fell by the minimum balance twice.
C19_Witness ==
    /\ InitializeSucceeded /\ Target = "counter_b"
    /\ IsCounterRecord(pre["counter_a"])
    /\ ledger["counter_a"] = pre["counter_a"]
    /\ ledger["payer"].lamports = AirdropLamports - 2 * minimum_balance(account_space)

====
